---- MODULE Spec2Model ----
(***************************************************************************)
(* Model of the bottle install scheduler of sapphire-cli                   *)
(* (src/sapphire-cli/src/cli/install.rs): Install::install_formulae, its   *)
(* install tasks and process_task_outcome.                                 *)
(*                                                                         *)
(* The controller is one sequential process whose position is pc.  The     *)
(* install tasks run concurrently with it: a task that finishes drops its  *)
(* semaphore permit and leaves its result in the JoinSet, where the        *)
(* controller finds it at its next join_next().                            *)
(*                                                                         *)
(* Package names are the numbers 1..MaxNodes; the resolver's plan lists    *)
(* them in the order 1, 2, ..., so that "every order of the plan" is       *)
(* "every acyclic dependency relation on the positions".                   *)
(***************************************************************************)
EXTENDS Naturals, Sequences, FiniteSets

\* ---------------------------------------------------------------- bounds
MaxNodes == 3
MaxP == 2
MaxCasks == 2
MaxDepth == 2

Names == 1..MaxNodes

\* ------------------------------------------------------------- variables
VARIABLES
    install_plan,             \* graph.install_plan: <<[name, status, dependencies]>>
    include_optional,         \* Install.include_optional
    skip_recommended,         \* Install.skip_recommended
    max_concurrent_installs,  \* Install.max_concurrent_installs
    nodes,                    \* HashMap<String, Node>
    queue,                    \* VecDeque<String>
    permits,                  \* permits available in sem
    running,                  \* tasks of js still executing (each holds a permit)
    finished,                 \* tasks of js that completed, in completion order
    pc,                       \* position of the controller
    result,                   \* what install_formulae returned
    outcome,                  \* history: how the task of each node ended
    spawns,                   \* history: how often each node's task was spawned
    everFailed,               \* history: nodes that were in state Failed at some time
    names,                    \* Install.names
    cask,                     \* Install.cask
    formulaExists,            \* the names the resolver finds as formulae
    caskDeps,                 \* depends_on.cask of every cask of the catalog
    runPc,                    \* position of Install::run
    runResult,                \* what Install::run returned
    notFound,                 \* the names n with "Formula 'n' not found" in the error
    crun,                     \* the calls of install_casks, by the path of the calling task
    ctask                     \* the tasks install_cask_task, by their path of tokens

\* The state of Install::run and of the cask installer.
outer == <<names, cask, formulaExists, caskDeps, runPc, runResult, notFound, crun, ctask>>

vars == <<install_plan, include_optional, skip_recommended, max_concurrent_installs,
          nodes, queue, permits, running, finished, pc, result,
          outcome, spawns, everFailed, outer>>

inputs == <<install_plan, include_optional, skip_recommended, max_concurrent_installs>>

\* --------------------------------------------------------------- helpers
Range(s) == {s[i] : i \in DOMAIN s}

Perms(S) == {s \in [1..Cardinality(S) -> S] : \A i, j \in DOMAIN s : i # j => s[i] # s[j]}

\* The tag sets a declared dependency carries.
TagSets == {{}, {"test"}, {"optional"}, {"recommended"}}

\* The filter of lines 127-131 and 143-145: is the dependency d effective?
Effective(d) ==
    /\ "test" \notin d.tags
    /\ ~("optional" \in d.tags /\ ~include_optional)
    /\ ~("recommended" \in d.tags /\ skip_recommended)

\* dep.formula.dependencies() of the plan entry called n
Dependencies(n) ==
    LET i == CHOOSE k \in DOMAIN install_plan : install_plan[k].name = n
    IN  install_plan[i].dependencies

Terminal(n) == nodes[n].state \in {"Ok", "Failed"}

AllTerminal == \A n \in DOMAIN nodes : Terminal(n)

\* ------------------------------------------------------- the plan builder
\* A first loop that does not skip the specs that are already Installed.
RECURSIVE BuildNodeMap_KeepInstalled(_)
BuildNodeMap_KeepInstalled(k) ==
    IF k = 0 THEN <<>>
    ELSE LET prev == BuildNodeMap_KeepInstalled(k - 1)
             dep == install_plan[k]
             node == [deps_remaining |->
                          Cardinality({d \in dep.dependencies :
                                          d.name \in DOMAIN prev /\ Effective(d)}),
                      dependents |-> <<>>,
                      state |-> "Pending",
                      reason |-> <<>>]
         IN  [x \in (DOMAIN prev) \cup {dep.name} |->
                 IF x = dep.name THEN node ELSE prev[x]]

\* First loop of phase 2 after the first k plan entries: deps_remaining
\* counts the effective dependencies that are keys of the map built so far.
RECURSIVE BuildNodeMap(_)
BuildNodeMap(k) ==
    IF k = 0 THEN <<>>
    ELSE LET prev == BuildNodeMap(k - 1)
             dep == install_plan[k]
             node == [deps_remaining |->
                          Cardinality({d \in dep.dependencies :
                                          d.name \in DOMAIN prev /\ Effective(d)}),
                      dependents |-> <<>>,
                      state |-> "Pending",
                      reason |-> <<>>]
         IN  IF dep.status = "Installed" THEN prev
             ELSE [x \in (DOMAIN prev) \cup {dep.name} |->
                      IF x = dep.name THEN node ELSE prev[x]]

\* Second loop of phase 2: every key, in the map's iteration order ord, is
\* pushed onto the dependents of each effective dependency that is a key.
FillDependents(map, ord) ==
    [p \in DOMAIN map |->
        LET DependsOnP(n) == \E d \in Dependencies(n) : d.name = p /\ Effective(d)
        IN  [map[p] EXCEPT !.dependents = SelectSeq(ord, DependsOnP)]]

\* The initial queue: the keys with deps_remaining = 0, in iteration order.
InitialQueue(map, ord) ==
    LET IsRoot(n) == map[n].deps_remaining = 0 /\ map[n].state = "Pending"
    IN  SelectSeq(ord, IsRoot)

\* A build that forgets lines 158-162: the queued nodes stay Pending.
MarkReady_Forgotten(map, q) == map

\* Lines 158-162: the queued nodes become Ready.
MarkReady(map, q) ==
    [n \in DOMAIN map |->
        IF n \in Range(q) THEN [map[n] EXCEPT !.state = "Ready"] ELSE map[n]]

\* -------------------------------------------------- process_task_outcome
\* The loop over the dependents without the test of line 336: a dependent of
\* a node that succeeded is made Ready whatever its state is.
RECURSIVE ProcessDependents_AnyState(_, _, _, _, _, _)
ProcessDependents_AnyState(ns, q, todo, name, succeeded, failure_msg) ==
    IF todo = <<>> THEN [nodes |-> ns, queue |-> q]
    ELSE
      LET dependent == Head(todo)
          dep_node == ns[dependent]
          left == IF dep_node.deps_remaining = 0 THEN 0
                  ELSE dep_node.deps_remaining - 1
      IN  IF succeeded
          THEN IF left = 0
               THEN ProcessDependents_AnyState(
                      [ns EXCEPT ![dependent].deps_remaining = 0,
                                 ![dependent].state = "Ready"],
                      IF dependent \in Range(q) THEN q ELSE Append(q, dependent),
                      Tail(todo), name, succeeded, failure_msg)
               ELSE ProcessDependents_AnyState(
                      [ns EXCEPT ![dependent].deps_remaining = left],
                      q, Tail(todo), name, succeeded, failure_msg)
          ELSE IF dep_node.state \in {"Pending", "Ready", "Running"}
               THEN LET Keep(i) == i # dependent
                    IN  ProcessDependents_AnyState(
                          [ns EXCEPT ![dependent].state = "Failed",
                                     ![dependent].reason = <<name>> \o failure_msg],
                          SelectSeq(q, Keep),
                          Tail(todo), name, succeeded, failure_msg)
               ELSE ProcessDependents_AnyState(ns, q, Tail(todo), name,
                                               succeeded, failure_msg)

\* The loop over node.dependents (lines 333-359), from the dependents still
\* to visit: ns and q are the map and the queue as changed so far.  A failure
\* message is modelled by the names it quotes, outermost first.
RECURSIVE ProcessDependents(_, _, _, _, _, _)
ProcessDependents(ns, q, todo, name, succeeded, failure_msg) ==
    IF todo = <<>> THEN [nodes |-> ns, queue |-> q]
    ELSE
      LET dependent == Head(todo)
          dep_node == ns[dependent]
          left == IF dep_node.deps_remaining = 0 THEN 0
                  ELSE dep_node.deps_remaining - 1
      IN  IF dependent \notin DOMAIN ns
          THEN ProcessDependents(ns, q, Tail(todo), name, succeeded, failure_msg)
          ELSE IF succeeded
          THEN IF dep_node.state \in {"Pending", "Ready"}
               THEN IF left = 0
                    THEN ProcessDependents(
                           [ns EXCEPT ![dependent].deps_remaining = 0,
                                      ![dependent].state = "Ready"],
                           IF dependent \in Range(q) THEN q ELSE Append(q, dependent),
                           Tail(todo), name, succeeded, failure_msg)
                    ELSE ProcessDependents(
                           [ns EXCEPT ![dependent].deps_remaining = left],
                           q, Tail(todo), name, succeeded, failure_msg)
               ELSE ProcessDependents(ns, q, Tail(todo), name, succeeded, failure_msg)
          ELSE IF dep_node.state \in {"Pending", "Ready", "Running"}
               THEN LET Keep(i) == i # dependent
                    IN  ProcessDependents(
                          [ns EXCEPT ![dependent].state = "Failed",
                                     ![dependent].reason = <<name>> \o failure_msg],
                          SelectSeq(q, Keep),
                          Tail(todo), name, succeeded, failure_msg)
               ELSE ProcessDependents(ns, q, Tail(todo), name, succeeded, failure_msg)

\* process_task_outcome without the loop over the dependents of a node that
\* succeeded: no dependent is made Ready.
process_task_outcome_NoWake(ns, q, name, res) ==
    IF res = "ok"
    THEN [nodes |-> [ns EXCEPT ![name].state = "Ok", ![name].reason = <<>>], queue |-> q]
    ELSE ProcessDependents([ns EXCEPT ![name].state = "Failed", ![name].reason = <<>>],
                           q, ns[name].dependents, name, FALSE, <<>>)

\* process_task_outcome(nodes, queue, name, outcome): the map and the queue
\* it leaves.  res is "ok" for Ok(path) and "err" for Err(e).
process_task_outcome(ns, q, name, res) ==
    IF name \notin DOMAIN ns THEN [nodes |-> ns, queue |-> q]
    ELSE
      LET set == IF res = "ok"
                 THEN [ns EXCEPT ![name].state = "Ok", ![name].reason = <<>>]
                 ELSE [ns EXCEPT ![name].state = "Failed", ![name].reason = <<>>]
          succeeded == set[name].state = "Ok"
          failure_msg == IF ~succeeded THEN set[name].reason ELSE <<>>
      IN  ProcessDependents(set, q, set[name].dependents, name, succeeded, failure_msg)

\* js.len() and js.is_empty()
JsLen == Cardinality(running) + Len(finished)

JsIsEmpty == JsLen = 0

FailedNodes(ns) == {n \in DOMAIN ns : ns[n].state = "Failed"}

\* A final check that reports success whatever the states are.
FinalResult_AlwaysOk(ns) == "ok"

\* The final check (lines 252-272).
FinalResult(ns) == IF FailedNodes(ns) = {} THEN "ok" ELSE "install_error"

\* ------------------------------------------------------------------ Init
\* Plans whose dependencies are all required and whose specs are all Missing:
\* every dependency relation on 1..MaxNodes.
RequiredPlans ==
    {p \in [Names -> [name : Names, status : {"Missing"},
                      dependencies : SUBSET [name : Names, tags : {{}}]]] :
        \A i \in Names : p[i].name = i /\ \A d \in p[i].dependencies : d.name # i}

\* Plans of up to two specs, either of which may be Installed, with at most
\* one declared dependency, which carries any of the tag sets and may name a
\* package that is no spec of the plan.
TaggedPlans ==
    {<<>>}
    \cup {<<[name |-> 1, status |-> s, dependencies |-> {}]>> :
             s \in {"Missing", "Installed"}}
    \cup {<<[name |-> 1, status |-> "Missing",
             dependencies |-> {[name |-> 2, tags |-> t]}]>> : t \in TagSets}
    \cup {<<[name |-> 1, status |-> s[1], dependencies |-> d[1]],
            [name |-> 2, status |-> s[2], dependencies |-> d[2]]>> :
             s \in [1..2 -> {"Missing", "Installed"}],
             d \in {<<{}, {}>>} \cup
                   {<<{[name |-> 2, tags |-> t]}, {}>> : t \in TagSets} \cup
                   {<<{}, {[name |-> 1, tags |-> t]}>> : t \in TagSets}}

\* The resolver guarantees that the declared dependencies have no cycle.
RECURSIVE Reach(_, _, _)
Reach(p, S, k) ==
    IF k = 0 THEN S
    ELSE Reach(p, S \cup {d.name : d \in UNION {p[i].dependencies :
                                                   i \in S \cap DOMAIN p}}, k - 1)

Acyclic(p) ==
    \A i \in DOMAIN p :
        i \notin Reach(p, {d.name : d \in p[i].dependencies}, Len(p))

\* Install::run is not in progress: install_formulae is called on its own.
OuterIdle ==
    /\ names = <<>>
    /\ cask = FALSE
    /\ formulaExists = {}
    /\ caskDeps = <<>>
    /\ runPc = "none"
    /\ runResult = "none"
    /\ notFound = {}
    /\ crun = <<>>
    /\ ctask = <<>>

Init ==
    /\ OuterIdle
    /\ \/ /\ install_plan \in RequiredPlans
          /\ include_optional = FALSE
          /\ skip_recommended = FALSE
       \/ /\ install_plan \in TaggedPlans
          /\ include_optional \in BOOLEAN
          /\ skip_recommended \in BOOLEAN
    /\ Acyclic(install_plan)
    /\ max_concurrent_installs \in 1..MaxP
    /\ nodes = <<>>
    /\ queue = <<>>
    /\ permits = 0
    /\ running = {}
    /\ finished = <<>>
    /\ pc = "start"
    /\ result = "none"
    /\ outcome = [n \in Names |-> "none"]
    /\ spawns = [n \in Names |-> 0]
    /\ everFailed = {}

\* --------------------------------------------------------------- actions
\* Lines 106-167: the early return on an empty plan, the node map, the
\* initial queue and the semaphore.  ord is the iteration order of the map.
Build ==
    /\ pc = "start"
    /\ IF install_plan = <<>>
       THEN /\ pc' = "done"
            /\ result' = "ok"
            /\ UNCHANGED <<nodes, queue, permits>>
       ELSE \E ord \in Perms(DOMAIN BuildNodeMap(Len(install_plan))) :
              LET map == FillDependents(BuildNodeMap(Len(install_plan)), ord)
                  q == InitialQueue(map, ord)
              IN  /\ nodes' = MarkReady(map, q)
                  /\ queue' = q
                  /\ permits' = max_concurrent_installs
                  /\ pc' = "loop"
                  /\ result' = result
    /\ UNCHANGED <<outer, inputs, running, finished, outcome, spawns, everFailed>>

\* Line 169: the condition of the outer while.
LoopHead ==
    /\ pc = "loop"
    /\ pc' = IF AllTerminal THEN "final" ELSE "dispatch"
    /\ UNCHANGED <<outer, inputs, nodes, queue, permits, running, finished, result,
                   outcome, spawns, everFailed>>

\* A dispatch that spawns without waiting for a permit.
Dispatch_NoPermit ==
    /\ pc = "dispatch"
    /\ queue # <<>>
    /\ LET name == Head(queue)
       IN  IF name \notin DOMAIN nodes \/ nodes[name].state # "Ready"
           THEN /\ queue' = Tail(queue)
                /\ UNCHANGED <<nodes, permits, running, spawns>>
           ELSE /\ queue' = Tail(queue)
                /\ permits' = IF permits > 0 THEN permits - 1 ELSE 0
                /\ nodes' = [nodes EXCEPT ![name].state = "Running"]
                /\ running' = running \cup {name}
                /\ spawns' = [spawns EXCEPT ![name] = @ + 1]
    /\ UNCHANGED <<outer, inputs, finished, pc, result, outcome, everFailed>>

\* Lines 173-222, one turn of the inner while: pop a name, skip it unless
\* it is Ready, wait for a permit, mark it Running and spawn its task.
\* (The semaphore is never closed, so acquire_owned never fails.)
Dispatch ==
    /\ pc = "dispatch"
    /\ queue # <<>>
    /\ LET name == Head(queue)
       IN  IF name \notin DOMAIN nodes \/ nodes[name].state # "Ready"
           THEN /\ queue' = Tail(queue)
                /\ UNCHANGED <<nodes, permits, running, spawns>>
           ELSE /\ permits > 0
                /\ queue' = Tail(queue)
                /\ permits' = permits - 1
                /\ nodes' = [nodes EXCEPT ![name].state = "Running"]
                /\ running' = running \cup {name}
                /\ spawns' = [spawns EXCEPT ![name] = @ + 1]
    /\ UNCHANGED <<outer, inputs, finished, pc, result, outcome, everFailed>>

\* A stall check that goes on to the harvest instead of returning the error.
StallCheck_NoReturn ==
    /\ pc = "dispatch"
    /\ queue = <<>>
    /\ pc' = IF JsIsEmpty /\ queue = <<>> /\ AllTerminal THEN "final" ELSE "harvest"
    /\ UNCHANGED <<outer, inputs, nodes, queue, permits, running, finished, result,
                   outcome, spawns, everFailed>>

\* Line 173 with the queue drained, and the stall check of lines 224-236.
StallCheck ==
    /\ pc = "dispatch"
    /\ queue = <<>>
    /\ IF JsIsEmpty /\ queue = <<>>
       THEN IF AllTerminal
            THEN pc' = "final" /\ result' = result
            ELSE pc' = "done" /\ result' = "stalled"
       ELSE pc' = "harvest" /\ result' = result
    /\ UNCHANGED <<outer, inputs, nodes, queue, permits, running, finished,
                   outcome, spawns, everFailed>>

\* Lines 238-248: wait for the next completed task and reduce its outcome;
\* a join error is only logged.
Harvest ==
    /\ pc = "harvest"
    /\ IF queue = <<>> \/ JsLen >= max_concurrent_installs
       THEN IF JsIsEmpty
            THEN UNCHANGED <<nodes, queue, finished, everFailed>>
            ELSE /\ finished # <<>>
                 /\ finished' = Tail(finished)
                 /\ IF Head(finished).res = "panic"
                    THEN UNCHANGED <<nodes, queue, everFailed>>
                    ELSE LET r == process_task_outcome(nodes, queue,
                                      Head(finished).name, Head(finished).res)
                         IN  /\ nodes' = r.nodes
                             /\ queue' = r.queue
                             /\ everFailed' = everFailed \cup FailedNodes(r.nodes)
       ELSE UNCHANGED <<nodes, queue, finished, everFailed>>
    /\ pc' = "loop"
    /\ UNCHANGED <<outer, inputs, permits, running, result, outcome, spawns>>

\* Lines 251-273: the final check.
Final ==
    /\ pc = "final"
    /\ result' = FinalResult(nodes)
    /\ pc' = "done"
    /\ UNCHANGED <<outer, inputs, nodes, queue, permits, running, finished,
                   outcome, spawns, everFailed>>

\* A task that ends without dropping its permit.
TaskFinish_KeepPermit(n) ==
    /\ n \in running
    /\ \E r \in {"ok", "err", "panic"} :
          /\ finished' = Append(finished, [name |-> n, res |-> r])
          /\ outcome' = [outcome EXCEPT ![n] = r]
    /\ running' = running \ {n}
    /\ permits' = permits
    /\ UNCHANGED <<outer, inputs, nodes, queue, pc, result, spawns, everFailed>>

\* Lines 198-209: the task of node n ends: install_formula_task returns
\* Ok or Err, or it panics; the permit is dropped in each case.
TaskFinish(n) ==
    /\ n \in running
    /\ \E r \in {"ok", "err", "panic"} :
          /\ finished' = Append(finished, [name |-> n, res |-> r])
          /\ outcome' = [outcome EXCEPT ![n] = r]
    /\ running' = running \ {n}
    /\ permits' = permits + 1
    /\ UNCHANGED <<outer, inputs, nodes, queue, pc, result, spawns, everFailed>>

Controller == Build \/ LoopHead \/ Dispatch \/ StallCheck \/ Harvest \/ Final

Next == Controller \/ \E n \in Names : TaskFinish(n)

Spec == Init /\ [][Next]_vars

\* The scheduler runs the controller, and every spawned task ends.
FairSpec ==
    /\ Spec
    /\ WF_vars(Controller)
    /\ \A n \in Names : WF_vars(TaskFinish(n))

\* ------------------------------------------------ notions of the claims
Returned == pc = "done"

StateOf(n) == nodes[n].state

\* The kept prerequisites of n: its effective dependencies that are Missing
\* specs of the plan, that is, keys of the node map.
KeptPrereqs(n) ==
    {d.name : d \in {e \in Dependencies(n) : Effective(e) /\ e.name \in DOMAIN nodes}}

RECURSIVE PrereqsFrom(_, _)
PrereqsFrom(S, k) ==
    IF k = 0 THEN S ELSE PrereqsFrom(S \cup UNION {KeptPrereqs(x) : x \in S}, k - 1)

TransKeptPrereqs(n) == PrereqsFrom(KeptPrereqs(n), MaxNodes)

RECURSIVE DependentsFrom(_, _)
DependentsFrom(S, k) ==
    IF k = 0 THEN S
    ELSE DependentsFrom(S \cup UNION {Range(nodes[x].dependents) : x \in S}, k - 1)

\* The nodes reachable from n by the dependents lists, at any depth.
TransDependents(n) == DependentsFrom(Range(nodes[n].dependents), MaxNodes)

\* The plan lists every spec after the specs it depends on.
TopologicalPlan ==
    \A i \in DOMAIN install_plan :
        \A d \in install_plan[i].dependencies : d.name < install_plan[i].name

NoPanic == \A n \in Names : outcome[n] # "panic"

TaskFailed(n) == outcome[n] \in {"err", "panic"}

\* The task of n ended, and the controller has taken its completion.
Harvested(n) ==
    /\ outcome[n] # "none"
    /\ n \notin running
    /\ \A i \in DOMAIN finished : finished[i].name # n

Rank(st) ==
    CASE st = "Pending" -> 0
      [] st = "Ready" -> 1
      [] st = "Running" -> 2
      [] OTHER -> 3

\* ---------------------------------------------------------------- claims

\* C1: when the run returns, every node reachable from a node whose task
\* returned an error, by the dependents lists at any depth, is Failed with a
\* reason that quotes a node whose task returned an error.  (Stated for plans
\* in topological order and runs without a panic, where it fails as well.)
C1_CascadeClosure ==
    (Returned /\ TopologicalPlan /\ NoPanic) =>
        \A n \in DOMAIN nodes :
            outcome[n] = "err" =>
                \A m \in TransDependents(n) :
                    /\ StateOf(m) = "Failed"
                    /\ \E p \in Range(nodes[m].reason) : outcome[p] = "err"

\* C2: whenever install_formulae has returned, every node is Ok or Failed.
\* (Stated for plans in topological order and runs without a panic, where it
\* fails as well.)
C2_AllTerminalOnReturn ==
    (Returned /\ TopologicalPlan /\ NoPanic) => AllTerminal

\* C3: a node is Ready, Running or Ok only if all its kept prerequisites
\* are Ok, whatever the order of the plan.
C3_ReadyImpliesPrereqsOk ==
    \A n \in DOMAIN nodes :
        StateOf(n) \in {"Ready", "Running", "Ok"} =>
            \A p \in KeptPrereqs(n) : StateOf(p) = "Ok"

\* C4 as claimed: at most max_concurrent_installs nodes are in state Running,
\* also between a task's release of its permit and the harvest of its result.
C4_RunningAtMostP ==
    Cardinality({n \in DOMAIN nodes : StateOf(n) = "Running"}) <= max_concurrent_installs

\* C4 as amended: at most max_concurrent_installs nodes are in state Running
\* with a task that has not yet ended (and so still holds its permit).
C4_RunningWithPermitAtMostP ==
    Cardinality({n \in DOMAIN nodes : StateOf(n) = "Running" /\ n \in running})
        <= max_concurrent_installs

C4_Witness ==
    /\ Cardinality({n \in DOMAIN nodes : StateOf(n) = "Running"}) > max_concurrent_installs
    /\ Cardinality(running) = max_concurrent_installs

\* C5: every step moves a node's state upward in Pending < Ready < Running <
\* {Ok, Failed}, and a node that is Ok or Failed keeps that state.
C5_MonotoneAbsorbing ==
    [][\A n \in (DOMAIN nodes) \cap (DOMAIN nodes') :
          /\ Rank(nodes'[n].state) >= Rank(nodes[n].state)
          /\ nodes[n].state \in {"Ok", "Failed"} => nodes'[n].state = nodes[n].state]_vars

\* C6: the final check returns success exactly if no node is Failed, and a
\* run in which some node was Failed at any time does not return success.
C6_SuccessIffNoFailure ==
    Returned =>
        /\ result \in {"ok", "install_error"} =>
              (result = "ok" <=> FailedNodes(nodes) = {})
        /\ result = "ok" => everFailed = {}

C6_Witness ==
    /\ Returned
    /\ result = "install_error"
    /\ \E n \in DOMAIN nodes : StateOf(n) = "Ok"
    /\ \E n \in everFailed : StateOf(n) = "Ok"

\* C7: once the controller has taken the completion of a task that panicked,
\* its node is Failed and so is every dependent of it.
C7_PanicFailsNode ==
    \A n \in DOMAIN nodes :
        (outcome[n] = "panic" /\ Harvested(n)) =>
            /\ StateOf(n) = "Failed"
            /\ \A d \in Range(nodes[n].dependents) : StateOf(d) = "Failed"

\* C8: install_formulae never returns the stalled error.  (Stated for plans
\* in topological order and runs without a panic, where it fails as well.)
C8_NeverStalled ==
    (TopologicalPlan /\ NoPanic) => result # "stalled"

\* C9: if the controller runs and every spawned task ends, install_formulae
\* returns; from a state with the queue drained, no task in flight and a
\* Pending node, it returns the stalled error.
StallState ==
    /\ pc = "dispatch"
    /\ queue = <<>>
    /\ JsIsEmpty
    /\ \E n \in DOMAIN nodes : StateOf(n) = "Pending"

C9_Terminates ==
    /\ <>Returned
    /\ StallState ~> (Returned /\ result = "stalled")

C9_Witness ==
    /\ Returned
    /\ result = "stalled"
    /\ \E n \in DOMAIN nodes : StateOf(n) = "Pending"

\* C10: a node is Failed only if its own task failed or a transitive kept
\* prerequisite of it is Failed; and when the run has returned, every node
\* whose task did not fail and none of whose transitive kept prerequisites'
\* tasks failed was spawned and is Ok.
C10_FailureLocalised ==
    /\ \A n \in DOMAIN nodes :
          StateOf(n) = "Failed" =>
              \/ TaskFailed(n)
              \/ \E p \in TransKeptPrereqs(n) : StateOf(p) = "Failed"
    /\ Returned =>
          \A n \in DOMAIN nodes :
              (~TaskFailed(n) /\ \A p \in TransKeptPrereqs(n) : ~TaskFailed(p)) =>
                  spawns[n] = 1 /\ StateOf(n) = "Ok"

C10_Witness ==
    /\ Returned
    /\ \E n, m, s \in DOMAIN nodes :
          /\ outcome[n] = "err" /\ StateOf(n) = "Failed"
          /\ m \in Range(nodes[n].dependents) /\ StateOf(m) = "Failed"
          /\ s \notin TransDependents(n) /\ s # n /\ StateOf(s) = "Ok"

\* ------------------------------------------- claims on the plan builder
\* The names of the plan, in the resolver's order.
PlanOrder == [i \in DOMAIN install_plan |-> install_plan[i].name]

\* The build has just ended: no task was spawned yet.
JustBuilt == pc = "loop" /\ \A n \in Names : spawns[n] = 0

NoDuplicates(q) == \A i, j \in DOMAIN q : i # j => q[i] # q[j]

RunningNodes == {n \in DOMAIN nodes : StateOf(n) = "Running"}

ReadyNodes == {n \in DOMAIN nodes : StateOf(n) = "Ready"}

NothingToInstall ==
    \A i \in DOMAIN install_plan : install_plan[i].status = "Installed"

\* C13: when the plan is empty or lists only Installed specs, the node map
\* stays empty, no permit is taken, no task is spawned and the return is a
\* success.
C13_NothingToInstallIsNoOp ==
    (NothingToInstall /\ pc # "idle") =>
        /\ DOMAIN nodes = {}
        /\ running = {} /\ finished = <<>>
        /\ \A n \in Names : spawns[n] = 0
        /\ permits \in {0, max_concurrent_installs}
        /\ Returned => result = "ok"

C13_Witness ==
    /\ Returned
    /\ result = "ok"
    /\ Len(install_plan) = 2
    /\ NothingToInstall
    /\ install_plan[2].dependencies # {}

\* C14: with one permit, the initial queue lists the nodes without kept
\* prerequisites in the order of the plan.  (Stated for plans in topological
\* order; the claim's order of completions and its equality of two runs rest
\* on this order.)
C14_InitialQueueInPlanOrder ==
    (JustBuilt /\ max_concurrent_installs = 1 /\ TopologicalPlan) =>
        LET Free(n) == n \in DOMAIN nodes /\ KeptPrereqs(n) = {}
        IN  queue = SelectSeq(PlanOrder, Free)

\* C15: when a Missing spec declares an effective dependency that is no spec
\* of the plan, no task is spawned and the run returns a plan-inconsistency
\* error.
AbsentDependency ==
    \E i \in DOMAIN install_plan :
        /\ install_plan[i].status = "Missing"
        /\ \E d \in install_plan[i].dependencies :
              Effective(d) /\ d.name \notin Range(PlanOrder)

C15_AbsentDependencyFailsBuild ==
    AbsentDependency =>
        /\ \A n \in Names : spawns[n] = 0
        /\ Returned => result = "plan_inconsistent"

\* C17: after the build, deps_remaining of every node is the number of its
\* kept prerequisites, which is the number of nodes that list it as a
\* dependent, whatever the order of the plan.
C17_DepsRemainingCountsKeptEdges ==
    JustBuilt =>
        \A n \in DOMAIN nodes :
            /\ nodes[n].deps_remaining = Cardinality(KeptPrereqs(n))
            /\ nodes[n].deps_remaining =
                   Cardinality({p \in DOMAIN nodes : n \in Range(nodes[p].dependents)})

C19_PermitsConserved ==
    /\ [](DOMAIN nodes # {} =>
            /\ Cardinality(running) + permits = max_concurrent_installs
            /\ Cardinality(running) <= max_concurrent_installs)
    /\ [][(\E n \in Names : spawns'[n] > spawns[n]) =>
              (permits > 0 /\ permits' = permits - 1)]_vars
    /\ [][Len(finished') > Len(finished) => permits' = permits + 1]_vars

C19_Witness ==
    /\ Cardinality(running) = MaxP
    /\ permits = 0
    /\ finished # <<>>

\* C20: at the start of a dispatch phase and after process_task_outcome, the
\* names in the queue are the Ready nodes, each with deps_remaining = 0, and
\* the name at the head of the queue is Ready when it is popped.
C20_QueueIsReadySet ==
    pc \in {"loop", "dispatch"} =>
        /\ Range(queue) = ReadyNodes
        /\ \A n \in ReadyNodes : nodes[n].deps_remaining = 0
        /\ queue # <<>> => StateOf(Head(queue)) = "Ready"

C20_Witness ==
    /\ pc = "loop"
    /\ queue # <<>>
    /\ \E n \in DOMAIN nodes : StateOf(n) = "Ok" /\ Range(nodes[n].dependents) = Range(queue)

\* ------------------------------------------------------------------
\* Install::run, install_casks and install_cask_task
\* ------------------------------------------------------------------

\* max_parallel of the nested call of install_casks.
CaskChildParallel == 2

Casks == 1..MaxCasks

\* The lists of names a user can request (no name twice).
RequestedLists ==
    {s \in UNION {[1..k -> Casks] : k \in 1..MaxCasks} :
        \A i, j \in DOMAIN s : i # j => s[i] # s[j]}

RECURSIVE Ascending(_)
\* deps.cask as a Vec: the dependencies of a cask in the order of the catalog.
Ascending(S) ==
    IF S = {} THEN <<>>
    ELSE LET m == CHOOSE x \in S : \A y \in S : x <= y
         IN  <<m>> \o Ascending(S \ {m})

Front(s) == SubSeq(s, 1, Len(s) - 1)
Last(s) == s[Len(s)]
Extend(f, k, v) == [x \in DOMAIN f \cup {k} |-> IF x = k THEN v ELSE f[x]]

\* The locals of one call of install_casks: sem, js and failures.
NewRun(tokens, max_parallel) ==
    [tokens |-> tokens, next |-> 1, permits |-> max_parallel, failures |-> 0,
     joined |-> {}, state |-> "spawning", res |-> "none"]

\* One spawned install_cask_task; formulaRun, caskRun and downloaded record
\* how far it went.
NewTask ==
    [pc |-> "fetch", res |-> "none", formulaRun |-> "none", caskRun |-> "none",
     downloaded |-> FALSE]

InitRun ==
    /\ names \in RequestedLists
    /\ cask \in BOOLEAN
    /\ formulaExists \in (IF cask THEN {{}} ELSE SUBSET Casks)
    /\ caskDeps \in [Casks -> SUBSET Casks]
    /\ runPc = "run"
    /\ runResult = "none"
    /\ notFound = {}
    /\ crun = <<>>
    /\ ctask = <<>>
    /\ install_plan = <<>>
    /\ include_optional = FALSE
    /\ skip_recommended = FALSE
    /\ max_concurrent_installs \in 1..MaxP
    /\ nodes = <<>>
    /\ queue = <<>>
    /\ permits = 0
    /\ running = {}
    /\ finished = <<>>
    /\ pc = "idle"
    /\ result = "none"
    /\ outcome = [n \in Names |-> "none"]
    /\ spawns = [n \in Names |-> 0]
    /\ everFailed = {}

scheduler == <<nodes, queue, permits, running, finished, outcome, spawns, everFailed>>
catalog == <<names, cask, formulaExists, caskDeps>>

\* run with --cask: the names go to install_casks directly.
RunCasks ==
    /\ runPc = "run"
    /\ cask
    /\ crun' = Extend(crun, <<>>, NewRun(names, max_concurrent_installs))
    /\ runPc' = "casks"
    /\ UNCHANGED <<inputs, scheduler, catalog, pc, result, runResult, notFound, ctask>>

\* resolve_targets fails: a formula is not found, or another error.
ResolveFails ==
    /\ runPc = "run"
    /\ ~cask
    /\ \E nf \in {{}} \cup {{n} : n \in Casks \ formulaExists} : notFound' = nf
    /\ pc' = "done"
    /\ result' = "resolve_error"
    /\ runPc' = "formulae"
    /\ UNCHANGED <<inputs, scheduler, catalog, runResult, crun, ctask>>

\* resolve_targets returns a plan of the requested names.
ResolvePlan ==
    /\ runPc = "run"
    /\ ~cask
    /\ Range(names) \subseteq formulaExists
    /\ \E st \in [DOMAIN names -> {"Missing", "Installed"}] :
          install_plan' = [i \in DOMAIN names |->
                             [name |-> names[i], status |-> st[i], dependencies |-> {}]]
    /\ pc' = "start"
    /\ runPc' = "formulae"
    /\ UNCHANGED <<include_optional, skip_recommended, max_concurrent_installs,
                   scheduler, catalog, result, runResult, notFound, crun, ctask>>

\* any_not_found: the text of the error names one of the requested names.
AnyNotFound == \E i \in DOMAIN names : names[i] \in notFound

\* The match on the result of install_formulae.
RunMatch ==
    /\ runPc = "formulae"
    /\ pc = "done"
    /\ IF result = "ok"
       THEN runPc' = "returned" /\ runResult' = "ok" /\ crun' = crun
       ELSE IF AnyNotFound
            THEN /\ crun' = Extend(crun, <<>>, NewRun(names, max_concurrent_installs))
                 /\ runPc' = "casks"
                 /\ runResult' = runResult
            ELSE runPc' = "returned" /\ runResult' = result /\ crun' = crun
    /\ UNCHANGED <<inputs, scheduler, catalog, pc, result, notFound, ctask>>

\* install_casks of the requested names has returned.
RunReturn ==
    /\ runPc = "casks"
    /\ crun[<<>>].state = "done"
    /\ runPc' = "returned"
    /\ runResult' = IF crun[<<>>].res = "ok" THEN "ok" ELSE "install_error"
    /\ UNCHANGED <<inputs, scheduler, catalog, pc, result, notFound, crun, ctask>>

notCask == <<inputs, scheduler, catalog, pc, result, runPc, runResult, notFound>>

\* The for loop of install_casks: acquire a permit, spawn the task of the
\* next token.
CaskSpawn(r) ==
    /\ crun[r].state = "spawning"
    /\ crun[r].permits > 0
    /\ LET run == crun[r]
           token == run.tokens[run.next]
       IN  /\ ctask' = Extend(ctask, Append(r, token), NewTask)
           /\ crun' = [crun EXCEPT ![r].permits = @ - 1,
                                   ![r].next = @ + 1,
                                   ![r].state = IF run.next = Len(run.tokens)
                                                THEN "joining" ELSE "spawning"]
    /\ UNCHANGED notCask

\* The task at path t returns res: drop(permit) gives the permit back to the
\* call of install_casks that spawned it.
TaskReturns(t, res, fields) ==
    /\ ctask' = [ctask EXCEPT ![t] = [fields EXCEPT !.pc = "done", !.res = res]]
    /\ crun' = [crun EXCEPT ![Front(t)].permits = @ + 1]

\* install_cask_task up to the await of the nested install_casks: get_cask,
\* the formula dependencies (install_formulae of another Install, here by its
\* result only), the spawn of the cask dependencies.
CaskFetch(t) ==
    /\ ctask[t].pc = "fetch"
    /\ \E got \in BOOLEAN, fr \in {"none", "ok", "err"} :
          IF ~got
          THEN TaskReturns(t, "err", ctask[t])
          ELSE IF fr = "err"
          THEN TaskReturns(t, "err", [ctask[t] EXCEPT !.formulaRun = "err"])
          ELSE IF caskDeps[Last(t)] # {}
          THEN /\ Len(t) < MaxDepth
               /\ crun' = Extend(crun, t, NewRun(Ascending(caskDeps[Last(t)]),
                                                 CaskChildParallel))
               /\ ctask' = [ctask EXCEPT ![t].pc = "await",
                                         ![t].formulaRun = fr,
                                         ![t].caskRun = "started"]
          ELSE /\ ctask' = [ctask EXCEPT ![t].pc = "install", ![t].formulaRun = fr]
               /\ crun' = crun
    /\ UNCHANGED notCask

\* The rest of install_cask_task with the nested result ignored.
CaskInstall_IgnoreNested(t) ==
    /\ \/ ctask[t].pc = "install"
       \/ ctask[t].pc = "await" /\ crun[t].state = "done"
    /\ LET nested == ctask[t].pc = "await"
           now == [ctask[t] EXCEPT !.caskRun = IF nested
                                               THEN (IF crun[t].res = "ok" THEN "ok" ELSE "err")
                                               ELSE @]
       IN  \E installed \in BOOLEAN, o \in {"ok", "err", "panic"} :
              IF installed
              THEN TaskReturns(t, "ok", now)
              ELSE TaskReturns(t, o, [now EXCEPT !.downloaded = TRUE])
    /\ UNCHANGED notCask

\* The rest of install_cask_task: the result of the nested install_casks
\* (`??`), is_installed, download_cask and install_cask.
CaskInstall(t) ==
    /\ \/ ctask[t].pc = "install"
       \/ ctask[t].pc = "await" /\ crun[t].state = "done"
    /\ LET nested == ctask[t].pc = "await"
       IN  IF nested /\ crun[t].res # "ok"
           THEN TaskReturns(t, "err", [ctask[t] EXCEPT !.caskRun = "err"])
           ELSE LET now == [ctask[t] EXCEPT !.caskRun = IF nested THEN "ok" ELSE @]
                IN  \E installed \in BOOLEAN, o \in {"ok", "err", "panic"} :
                       IF installed
                       THEN TaskReturns(t, "ok", now)
                       ELSE TaskReturns(t, o, [now EXCEPT !.downloaded = TRUE])
    /\ UNCHANGED notCask

\* The join loop of install_casks and its result.
CaskJoin(r) ==
    /\ crun[r].state = "joining"
    /\ \E token \in Range(crun[r].tokens) \ crun[r].joined :
          LET t == Append(r, token)
              failures == crun[r].failures + (IF ctask[t].res = "ok" THEN 0 ELSE 1)
              joined == crun[r].joined \cup {token}
              last == joined = Range(crun[r].tokens)
          IN  /\ ctask[t].pc = "done"
              /\ crun' = [crun EXCEPT ![r].failures = failures,
                                      ![r].joined = joined,
                                      ![r].state = IF last THEN "done" ELSE "joining",
                                      ![r].res = IF ~last THEN "none"
                                                 ELSE IF failures = 0 THEN "ok" ELSE "err"]
    /\ UNCHANGED <<notCask, ctask>>

NextRun ==
    \/ RunCasks
    \/ ResolveFails
    \/ ResolvePlan
    \/ RunMatch
    \/ RunReturn
    \/ \E r \in DOMAIN crun : CaskSpawn(r)
    \/ \E t \in DOMAIN ctask : CaskFetch(t)
    \/ \E t \in DOMAIN ctask : CaskInstall(t)
    \/ \E r \in DOMAIN crun : CaskJoin(r)
    \/ Controller
    \/ \E n \in Names : TaskFinish(n)

SpecRun == InitRun /\ [][NextRun]_vars

\* ------------------------------------------------------------------
\* Claims on Install::run and the cask installer
\* ------------------------------------------------------------------

FallbackStarted == <<>> \in DOMAIN crun

\* The resolver failed with NotFound of a requested name, and none of the
\* requested names is a formula.
EveryNameNotFound ==
    /\ result = "resolve_error"
    /\ notFound # {}
    /\ notFound \subseteq Range(names)
    /\ \A i \in DOMAIN names : names[i] \notin formulaExists

\* C11: without --cask, the requested names are retried as casks if and only
\* if the formula path failed because every requested name was reported not
\* found; otherwise no cask run is started and the original error is returned.
C11_FallbackIffEveryNameNotFound ==
    (~cask /\ runPc \in {"casks", "returned"}) =>
        /\ FallbackStarted <=> EveryNameNotFound
        /\ (runPc = "returned" /\ ~FallbackStarted) => runResult = result

\* C12: a cask is downloaded only after its formula-dependency run and its
\* cask-dependency run have returned, both with success; when one of them
\* fails the cask is not downloaded and its task returns an error.
C12_DownloadAfterDependencyRuns ==
    \A t \in DOMAIN ctask :
        /\ ctask[t].downloaded =>
              /\ ctask[t].formulaRun \in {"none", "ok"}
              /\ ctask[t].caskRun \in {"none", "ok"}
              /\ caskDeps[Last(t)] # {} =>
                    /\ ctask[t].caskRun = "ok"
                    /\ crun[t].state = "done"
                    /\ crun[t].res = "ok"
        /\ (ctask[t].formulaRun = "err" \/ ctask[t].caskRun = "err") =>
              /\ ~ctask[t].downloaded
              /\ ctask[t].pc = "done"
              /\ ctask[t].res = "err"
        /\ ctask[t].caskRun # "none" => ctask[t].formulaRun # "err"

C12_Witness ==
    \E t \in DOMAIN ctask :
        /\ ctask[t].downloaded
        /\ ctask[t].formulaRun = "ok"
        /\ ctask[t].caskRun = "ok"
        /\ ctask[t].res = "ok"

\* C16: the recursion on cask dependencies terminates, and a cask that
\* depends on itself ends the run with an error instead of recursing: no
\* task installs a cask whose own task is waiting for it.
C16_NoCaskInsideItself ==
    \A t \in DOMAIN ctask :
        \A i, j \in DOMAIN t : i # j => t[i] # t[j]

====
